---- MODULE Spec2Model ----
(***************************************************************************)
(* Type checkers of the repository: the System F checker                   *)
(* (system_f/src/types/mod.rs) and the simply typed checker                *)
(* (stlc/src/typing.rs), as state machines over bounded sets of terms.     *)
(***************************************************************************)
EXTENDS Integers, Sequences, FiniteSets, TLC

\* ------------------------------------------------------------------------
\* Bounds of the model
\* ------------------------------------------------------------------------
MaxVar == 1
MaxSize == 3
MaxTySize == 3
MaxArms == 3
MaxStack == 1
MaxShift == 2
MaxIdx == 5
MaxFwSize == 3

\* ------------------------------------------------------------------------
\* system_f: enum Type
\* ------------------------------------------------------------------------
Type_Unit == [k |-> "Unit"]
Type_Nat == [k |-> "Nat"]
Type_Bool == [k |-> "Bool"]
Type_Alias(s) == [k |-> "Alias", s |-> s]
Type_Var(i) == [k |-> "Var", i |-> i]
Type_Variant(fs) == [k |-> "Variant", fs |-> fs]
Type_Product(ts) == [k |-> "Product", ts |-> ts]
Type_Arrow(a, b) == [k |-> "Arrow", a |-> a, b |-> b]
Type_Universal(t) == [k |-> "Universal", t |-> t]
Type_Rec(t) == [k |-> "Rec", t |-> t]

\* struct Variant { label, ty }
Variant(label, ty) == [label |-> label, ty |-> ty]

\* ------------------------------------------------------------------------
\* system_f: types::visit (Shift, Subst and the default walk of MutVisitor)
\* ------------------------------------------------------------------------
\* Type::Var(usize): an index that a negative shift takes below 0 wraps
\* around; a negative number stands for the wrapped index, which is above
\* every cutoff.
UsizeGe(i, cutoff) == i < 0 \/ i >= cutoff

\* Shift whose cutoff stays where it started: bound variables are shifted too
RECURSIVE Shift_no_cutoff(_, _, _)
Shift_no_cutoff(cutoff, d, ty) ==
    CASE ty.k = "Var" ->
            IF UsizeGe(ty.i, cutoff) THEN [k |-> "Var", i |-> ty.i + d] ELSE ty
      [] ty.k = "Variant" ->
            [k |-> "Variant", fs |-> [n \in DOMAIN ty.fs |->
                [label |-> ty.fs[n].label, ty |-> Shift_no_cutoff(cutoff, d, ty.fs[n].ty)]]]
      [] ty.k = "Product" ->
            [k |-> "Product", ts |-> [n \in DOMAIN ty.ts |-> Shift_no_cutoff(cutoff, d, ty.ts[n])]]
      [] ty.k = "Arrow" ->
            [k |-> "Arrow", a |-> Shift_no_cutoff(cutoff, d, ty.a),
                            b |-> Shift_no_cutoff(cutoff, d, ty.b)]
      [] ty.k \in {"Universal", "Rec"} ->
            [k |-> ty.k, t |-> Shift_no_cutoff(cutoff, d, ty.t)]
      [] OTHER -> ty

\* Shift { cutoff, shift }: adds shift to every index at or above the cutoff;
\* the cutoff grows by one under Universal and Rec.
RECURSIVE Shift(_, _, _)
Shift(cutoff, d, ty) ==
    CASE ty.k = "Var" ->
            IF UsizeGe(ty.i, cutoff) THEN Type_Var(ty.i + d) ELSE ty
      [] ty.k = "Variant" ->
            Type_Variant([n \in DOMAIN ty.fs |->
                Variant(ty.fs[n].label, Shift(cutoff, d, ty.fs[n].ty))])
      [] ty.k = "Product" ->
            Type_Product([n \in DOMAIN ty.ts |-> Shift(cutoff, d, ty.ts[n])])
      [] ty.k = "Arrow" ->
            Type_Arrow(Shift(cutoff, d, ty.a), Shift(cutoff, d, ty.b))
      [] ty.k = "Universal" -> Type_Universal(Shift(cutoff + 1, d, ty.t))
      [] ty.k = "Rec" -> Type_Rec(Shift(cutoff + 1, d, ty.t))
      [] OTHER -> ty

\* Subst { cutoff, ty }: replaces the variable whose index is the current
\* binder depth by the replacement shifted by that depth.  The decrement of
\* the remaining free indices is the Shift(-1) that follows it in subst and
\* in the TyApp rule.
RECURSIVE Subst(_, _, _)
Subst(cutoff, s, ty) ==
    CASE ty.k = "Var" ->
            IF ty.i = cutoff THEN Shift(0, cutoff, s) ELSE ty
      [] ty.k = "Variant" ->
            Type_Variant([n \in DOMAIN ty.fs |->
                Variant(ty.fs[n].label, Subst(cutoff, s, ty.fs[n].ty))])
      [] ty.k = "Product" ->
            Type_Product([n \in DOMAIN ty.ts |-> Subst(cutoff, s, ty.ts[n])])
      [] ty.k = "Arrow" ->
            Type_Arrow(Subst(cutoff, s, ty.a), Subst(cutoff, s, ty.b))
      [] ty.k = "Universal" -> Type_Universal(Subst(cutoff + 1, s, ty.t))
      [] ty.k = "Rec" -> Type_Rec(Subst(cutoff + 1, s, ty.t))
      [] OTHER -> ty

\* pub fn subst(s, t): Shift(1) on s, Subst(s) on t, Shift(-1) on t
subst(s, t) == Shift(0, -1, Subst(0, Shift(0, 1, s), t))

\* ------------------------------------------------------------------------
\* system_f: terms (Kind, Literal, Primitive) and source spans
\* ------------------------------------------------------------------------
Kind_Lit(l) == [k |-> "Lit", lit |-> l]
Kind_Var(i) == [k |-> "Var", i |-> i]
Kind_Abs(ty, t) == [k |-> "Abs", ty |-> ty, t |-> t]
Kind_App(t1, t2) == [k |-> "App", t1 |-> t1, t2 |-> t2]
Kind_Fix(t) == [k |-> "Fix", t |-> t]
Kind_Primitive(p) == [k |-> "Primitive", p |-> p]
Kind_Injection(label, t, ty) == [k |-> "Injection", label |-> label, t |-> t, ty |-> ty]
Kind_Projection(t, idx) == [k |-> "Projection", t |-> t, idx |-> idx]
Kind_Product(ts) == [k |-> "Product", ts |-> ts]
Kind_Let(t1, t2) == [k |-> "Let", t1 |-> t1, t2 |-> t2]
Kind_TyAbs(t) == [k |-> "TyAbs", t |-> t]
Kind_TyApp(t, ty) == [k |-> "TyApp", t |-> t, ty |-> ty]
Kind_Case(e, arms) == [k |-> "Case", e |-> e, arms |-> arms]
Kind_Unfold(ty, t) == [k |-> "Unfold", ty |-> ty, t |-> t]
Kind_Fold(ty, t) == [k |-> "Fold", ty |-> ty, t |-> t]

\* An arm of a case term: the label it matches and its body
Arm(label, t) == [label |-> label, t |-> t]

\* Term.span: the place of a node in the parsed text, here its path from the
\* root of the term (distinct nodes have distinct spans)
RootSpan == <<>>
ChildSpan(span, n) == Append(span, n)

\* ------------------------------------------------------------------------
\* system_f: TypeError, TypeErrorKind and Result<Type, TypeError>
\* ------------------------------------------------------------------------
ParameterMismatch(a, b, sp) == [e |-> "ParameterMismatch", a |-> a, b |-> b, sp |-> sp]
UnboundVariable(i) == [e |-> "UnboundVariable", i |-> i]
ErrKind(e) == [e |-> e]

Ok(ty) == [ok |-> TRUE, ty |-> ty]
\* Context::error(term, kind): the error carries the span of `term`
Err(span, kind) == [ok |-> FALSE, span |-> span, kind |-> kind]

\* ------------------------------------------------------------------------
\* system_f: Context (the stack of bound types; the alias map is `map`)
\* ------------------------------------------------------------------------
push(stack, ty) == <<ty>> \o stack
\* find counting from the oldest binder instead of the newest
find_from_back(stack, idx) ==
    IF idx < Len(stack) THEN [ok |-> TRUE, ty |-> stack[Len(stack) - idx]] ELSE [ok |-> FALSE]
pop(stack) == Tail(stack)
find(stack, idx) == IF idx < Len(stack) THEN Ok(stack[idx + 1]) ELSE [ok |-> FALSE]

\* What a call leaves behind: its result and the stack of the Context
Ret(r, st) == [r |-> r, st |-> st]

\* fn variant_field and the lookup loop of the Injection rule: the first
\* field carrying the label, 0 when there is none
FieldIndex(fs, label) ==
    IF \E n \in DOMAIN fs : fs[n].label = label
    THEN CHOOSE n \in DOMAIN fs :
            /\ fs[n].label = label
            /\ \A m \in DOMAIN fs : fs[m].label = label => n <= m
    ELSE 0

\* ------------------------------------------------------------------------
\* system_f: Context::type_check
\* ------------------------------------------------------------------------
RECURSIVE type_check(_, _, _)
RECURSIVE type_check_product(_, _, _, _, _)
RECURSIVE type_check_arms(_, _, _, _, _, _)
RECURSIVE type_check_case(_, _, _, _)

LitType(l) ==
    CASE l = "Unit" -> Type_Unit
      [] l = "Bool" -> Type_Bool
      [] l = "Nat" -> Type_Nat

\* Kind::Var
type_check_var(stack, term, span) ==
    LET f == find(stack, term.i)
    IN  Ret(IF f.ok THEN f ELSE Err(span, UnboundVariable(term.i)), stack)

\* Kind::Abs: push, check the body (`?` returns before the pop), pop
type_check_abs(stack, term, span) ==
    LET c == type_check(push(stack, term.ty), term.t, ChildSpan(span, 1))
    IN  IF ~c.r.ok THEN c
        ELSE Ret(Ok(Type_Arrow(term.ty, c.r.ty)), pop(c.st))

\* app_result with the components of the mismatch in the order the Injection
\* rule uses
app_result_swapped(ty1, ty2, span, span1, span2) ==
    IF ty1.k = "Arrow"
    THEN IF ty1.a = ty2 THEN Ok(ty1.b)
         ELSE Err(span1, ParameterMismatch(ty2, ty1.a, span2))
    ELSE Err(span, ErrKind("NotArrow"))

\* The comparison and the error of Kind::App once both subterms have checked
app_result(ty1, ty2, span, span1, span2) ==
    IF ty1.k = "Arrow"
    THEN IF ty1.a = ty2 THEN Ok(ty1.b)
         ELSE Err(span1, ParameterMismatch(ty1.a, ty2, span2))
    ELSE Err(span, ErrKind("NotArrow"))

\* Kind::App
type_check_app(stack, term, span) ==
    LET c1 == type_check(stack, term.t1, ChildSpan(span, 1))
    IN  IF ~c1.r.ok THEN c1
        ELSE LET c2 == type_check(c1.st, term.t2, ChildSpan(span, 2))
             IN  IF ~c2.r.ok THEN c2
                 ELSE Ret(app_result(c1.r.ty, c2.r.ty, span,
                                     ChildSpan(span, 1), ChildSpan(span, 2)), c2.st)

\* Kind::Fix
type_check_fix(stack, term, span) ==
    LET c == type_check(stack, term.t, ChildSpan(span, 1))
    IN  IF ~c.r.ok THEN c
        ELSE IF c.r.ty.k = "Arrow"
             THEN IF c.r.ty.a = c.r.ty.b THEN Ret(Ok(c.r.ty.a), c.st)
                  ELSE Ret(Err(span, ParameterMismatch(c.r.ty.a, c.r.ty.b,
                                                       ChildSpan(span, 1))), c.st)
             ELSE Ret(Err(span, ErrKind("NotArrow")), c.st)

\* Kind::Primitive
type_check_primitive(stack, term, span) ==
    IF term.p = "IsZero" THEN Ret(Ok(Type_Arrow(Type_Nat, Type_Bool)), stack)
    ELSE Ret(Ok(Type_Arrow(Type_Nat, Type_Nat)), stack)

\* The comparison and the error of Kind::Injection once the payload has
\* checked to ty_ and the field f has been found
injection_result(ty_, fty, ty, span, spanTm) ==
    IF ty_ = fty THEN Ok(ty)
    ELSE Err(span, ParameterMismatch(ty_, fty, spanTm))

\* Kind::Injection
type_check_injection(stack, term, span) ==
    IF term.ty.k = "Variant"
    THEN LET n == FieldIndex(term.ty.fs, term.label)
         IN  IF n = 0 THEN Ret(Err(span, ErrKind("NotVariant")), stack)
             ELSE LET c == type_check(stack, term.t, ChildSpan(span, 1))
                  IN  IF ~c.r.ok THEN c
                      ELSE Ret(injection_result(c.r.ty, term.ty.fs[n].ty, term.ty,
                                                span, ChildSpan(span, 1)), c.st)
    ELSE Ret(Err(span, ErrKind("NotVariant")), stack)

\* Kind::Projection (the pattern shadows `term`: errors carry the span of
\* the projected subterm)
\* Projection that answers with the first component whatever the index
type_check_projection_first(stack, term, span) ==
    LET c == type_check(stack, term.t, ChildSpan(span, 1))
    IN  IF ~c.r.ok THEN c
        ELSE IF c.r.ty.k = "Product"
             THEN IF term.idx < Len(c.r.ty.ts)
                  THEN Ret(Ok(c.r.ty.ts[1]), c.st)
                  ELSE Ret(Err(ChildSpan(span, 1), ErrKind("InvalidProjection")), c.st)
             ELSE Ret(Err(ChildSpan(span, 1), ErrKind("NotProduct")), c.st)

type_check_projection(stack, term, span) ==
    LET c == type_check(stack, term.t, ChildSpan(span, 1))
    IN  IF ~c.r.ok THEN c
        ELSE IF c.r.ty.k = "Product"
             THEN IF term.idx < Len(c.r.ty.ts)
                  THEN Ret(Ok(c.r.ty.ts[term.idx + 1]), c.st)
                  ELSE Ret(Err(ChildSpan(span, 1), ErrKind("InvalidProjection")), c.st)
             ELSE Ret(Err(ChildSpan(span, 1), ErrKind("NotProduct")), c.st)

\* Kind::Product: the components in order, stopping at the first error
type_check_product(stack, ts, span, n, tys) ==
    IF n > Len(ts) THEN Ret(Ok(Type_Product(tys)), stack)
    ELSE LET c == type_check(stack, ts[n], ChildSpan(span, n))
         IN  IF ~c.r.ok THEN c
             ELSE type_check_product(c.st, ts, span, n + 1, Append(tys, c.r.ty))

\* Kind::Let: the pop is made before the result of the body is looked at
type_check_let(stack, term, span) ==
    LET c1 == type_check(stack, term.t1, ChildSpan(span, 1))
    IN  IF ~c1.r.ok THEN c1
        ELSE LET y == type_check(push(c1.st, c1.r.ty), term.t2, ChildSpan(span, 2))
             IN  Ret(y.r, pop(y.st))

\* Kind::TyAbs
type_check_tyabs(stack, term, span) ==
    LET c == type_check(stack, term.t, ChildSpan(span, 1))
    IN  IF ~c.r.ok THEN c ELSE Ret(Ok(Type_Universal(c.r.ty)), c.st)

\* tyapp_instantiate without the Shift(1) of the argument
tyapp_instantiate_unshifted(ty, ty12) == Shift(0, -1, Subst(0, ty, ty12))

\* The instantiation of Kind::TyApp: Shift(1) on the argument, Subst of it
\* in the body of the Universal, Shift(-1) on the result
tyapp_instantiate(ty, ty12) == Shift(0, -1, Subst(0, Shift(0, 1, ty), ty12))

\* Kind::TyApp (the pattern shadows `term`)
type_check_tyapp(stack, term, span) ==
    LET c == type_check(stack, term.t, ChildSpan(span, 1))
    IN  IF ~c.r.ok THEN c
        ELSE IF c.r.ty.k = "Universal"
             THEN Ret(Ok(tyapp_instantiate(term.ty, c.r.ty.t)), c.st)
             ELSE Ret(Err(ChildSpan(span, 1), ErrKind("NotUniversal")), c.st)

\* Kind::Unfold: the subterm is not looked at
type_check_unfold(stack, term, span) ==
    IF term.ty.k = "Rec" THEN Ret(Ok(subst(term.ty, term.ty.t)), stack)
    ELSE Ret(Err(span, ErrKind("NotRec")), stack)

\* Kind::Fold: the subterm is not looked at
type_check_fold(stack, term, span) ==
    IF term.ty.k = "Rec" THEN Ret(Ok(term.ty), stack)
    ELSE Ret(Err(span, ErrKind("NotRec")), stack)

type_check(stack, term, span) ==
    CASE term.k = "Lit" -> Ret(Ok(LitType(term.lit)), stack)
      [] term.k = "Var" -> type_check_var(stack, term, span)
      [] term.k = "Abs" -> type_check_abs(stack, term, span)
      [] term.k = "App" -> type_check_app(stack, term, span)
      [] term.k = "Fix" -> type_check_fix(stack, term, span)
      [] term.k = "Primitive" -> type_check_primitive(stack, term, span)
      [] term.k = "Injection" -> type_check_injection(stack, term, span)
      [] term.k = "Projection" -> type_check_projection(stack, term, span)
      [] term.k = "Product" -> type_check_product(stack, term.ts, span, 1, <<>>)
      [] term.k = "Let" -> type_check_let(stack, term, span)
      [] term.k = "TyAbs" -> type_check_tyabs(stack, term, span)
      [] term.k = "TyApp" -> type_check_tyapp(stack, term, span)
      [] term.k = "Case" -> type_check_case(stack, term.e, term.arms, span)
      [] term.k = "Unfold" -> type_check_unfold(stack, term, span)
      [] term.k = "Fold" -> type_check_fold(stack, term, span)

\* ------------------------------------------------------------------------
\* system_f: types::patterns (Context::type_check_case)
\* ------------------------------------------------------------------------
Labels(fs) == {fs[n].label : n \in DOMAIN fs}

\* (a) the first arm whose label the variant does not declare, 0 if none
FirstInvalid(fs, arms) ==
    LET bad == {n \in DOMAIN arms : arms[n].label \notin Labels(fs)}
    IN  IF bad = {} THEN 0 ELSE CHOOSE n \in bad : \A m \in bad : n <= m

\* (b) the first arm whose label an earlier arm carries, 0 if none
FirstRepeated(arms) ==
    LET rep == {n \in DOMAIN arms : \E m \in 1..(n - 1) : arms[m].label = arms[n].label}
    IN  IF rep = {} THEN 0 ELSE CHOOSE n \in rep : \A m \in rep : n <= m

\* (c) every declared label has an arm
Exhaustive(fs, arms) == \A l \in Labels(fs) : \E n \in DOMAIN arms : arms[n].label = l

\* The pattern checks without (b): a repeated label goes unnoticed
check_patterns_no_repeats(fs, arms, span) ==
    IF FirstInvalid(fs, arms) # 0
    THEN Err(ChildSpan(span, FirstInvalid(fs, arms)), ErrKind("InvalidPattern"))
    ELSE IF ~Exhaustive(fs, arms)
    THEN Err(span, ErrKind("NotExhaustive"))
    ELSE Ok(Type_Unit)

\* The three pattern checks, in order; Ok(Unit) stands for "no objection"
check_patterns(fs, arms, span) ==
    IF FirstInvalid(fs, arms) # 0
    THEN Err(ChildSpan(span, FirstInvalid(fs, arms)), ErrKind("InvalidPattern"))
    ELSE IF FirstRepeated(arms) # 0
    THEN Err(ChildSpan(span, FirstRepeated(arms)), ErrKind("UnreachablePattern"))
    ELSE IF ~Exhaustive(fs, arms)
    THEN Err(span, ErrKind("NotExhaustive"))
    ELSE Ok(Type_Unit)

\* The arm bodies in order: the payload type of the arm's label is pushed,
\* the body checked, the binder popped on every path
type_check_arms(stack, fs, arms, span, n, tys) ==
    IF n > Len(arms) THEN [r |-> Ok(Type_Unit), st |-> stack, tys |-> tys]
    ELSE LET c == type_check(push(stack, fs[FieldIndex(fs, arms[n].label)].ty),
                             arms[n].t, ChildSpan(span, n))
         IN  IF ~c.r.ok THEN [r |-> c.r, st |-> pop(c.st), tys |-> tys]
             ELSE type_check_arms(pop(c.st), fs, arms, span, n + 1, Append(tys, c.r.ty))

type_check_case(stack, e, arms, span) ==
    LET c == type_check(stack, e, ChildSpan(span, 0))
    IN  IF ~c.r.ok THEN c
        ELSE IF c.r.ty.k # "Variant" THEN Ret(Err(span, ErrKind("NotVariant")), c.st)
        ELSE LET p == check_patterns(c.r.ty.fs, arms, span)
             IN  IF ~p.ok THEN Ret(p, c.st)
                 ELSE LET b == type_check_arms(c.st, c.r.ty.fs, arms, span, 1, <<>>)
                      IN  IF ~b.r.ok THEN Ret(b.r, b.st)
                          ELSE IF Len(b.tys) = 0
                               THEN Ret(Err(span, ErrKind("NotExhaustive")), b.st)
                          ELSE IF \E n \in DOMAIN b.tys : b.tys[n] # b.tys[1]
                               THEN Ret(Err(span, ErrKind("IncompatibleArms")), b.st)
                          ELSE Ret(Ok(b.tys[1]), b.st)

\* ------------------------------------------------------------------------
\* system_f: alias resolution (Aliaser, Context::de_alias)
\* ------------------------------------------------------------------------
\* Aliaser::visit: an Alias found in the map is overwritten by a clone of
\* its definition, which is not visited again
RECURSIVE Aliaser_visit(_, _)
Aliaser_visit(m, ty) ==
    CASE ty.k = "Alias" -> IF ty.s \in DOMAIN m THEN m[ty.s] ELSE ty
      [] ty.k = "Variant" ->
            Type_Variant([n \in DOMAIN ty.fs |->
                Variant(ty.fs[n].label, Aliaser_visit(m, ty.fs[n].ty))])
      [] ty.k = "Product" ->
            Type_Product([n \in DOMAIN ty.ts |-> Aliaser_visit(m, ty.ts[n])])
      [] ty.k = "Arrow" -> Type_Arrow(Aliaser_visit(m, ty.a), Aliaser_visit(m, ty.b))
      [] ty.k = "Universal" -> Type_Universal(Aliaser_visit(m, ty.t))
      [] ty.k = "Rec" -> Type_Rec(Aliaser_visit(m, ty.t))
      [] OTHER -> ty

RECURSIVE Context_visit(_, _)
\* terms::visit::MutVisitor, the hooks Context leaves at their default: every
\* subterm is visited
walk_term(m, term) ==
    CASE term.k \in {"Fix", "Projection", "TyAbs"} ->
            [term EXCEPT !.t = Context_visit(m, term.t)]
      [] term.k \in {"App", "Let"} ->
            [term EXCEPT !.t1 = Context_visit(m, term.t1),
                         !.t2 = Context_visit(m, term.t2)]
      [] term.k = "Product" ->
            [term EXCEPT !.ts = [n \in DOMAIN term.ts |-> Context_visit(m, term.ts[n])]]
      [] term.k = "Case" ->
            [term EXCEPT !.e = Context_visit(m, term.e),
                         !.arms = [n \in DOMAIN term.arms |->
                             Arm(term.arms[n].label, Context_visit(m, term.arms[n].t))]]
      [] OTHER -> term

\* impl terms::visit::MutVisitor for Context: visit_abs, visit_tyapp,
\* visit_injection, visit_fold, visit_unfold run the aliaser on the annotation
Context_visit(m, term) ==
    IF term.k \in {"Abs", "TyApp", "Injection", "Fold", "Unfold"}
    THEN [term EXCEPT !.ty = Aliaser_visit(m, term.ty),
                      !.t = Context_visit(m, term.t)]
    ELSE walk_term(m, term)

\* Context::de_alias
de_alias(m, term) == Context_visit(m, term)

\* Context::alias: HashMap::insert
alias_insert(m, name, ty) ==
    [n \in DOMAIN m \cup {name} |-> IF n = name THEN ty ELSE m[n]]

\* ------------------------------------------------------------------------
\* stlc: Type, TypeError, Term
\* ------------------------------------------------------------------------
SType_Bool == [k |-> "Bool"]
SType_Nat == [k |-> "Nat"]
SType_Arrow(a, b) == [k |-> "Arrow", a |-> a, b |-> b]
SType_Record(ts) == [k |-> "Record", ts |-> ts]

Term_True == [k |-> "True"]
Term_False == [k |-> "False"]
Term_Zero == [k |-> "Zero"]
Term_Succ(t) == [k |-> "Succ", t |-> t]
Term_Pred(t) == [k |-> "Pred", t |-> t]
Term_IsZero(t) == [k |-> "IsZero", t |-> t]
Term_Var(i) == [k |-> "Var", i |-> i]
Term_Abs(ty, t) == [k |-> "Abs", ty |-> ty, t |-> t]
Term_App(t1, t2) == [k |-> "App", t1 |-> t1, t2 |-> t2]
Term_If(g, c, a) == [k |-> "If", g |-> g, c |-> c, a |-> a]
Term_Let(b, t) == [k |-> "Let", b |-> b, t |-> t]
Term_Record(fields) == [k |-> "Record", fields |-> fields]
Term_Projection(r, idx) == [k |-> "Projection", r |-> r, idx |-> idx]

SOk(ty) == [ok |-> TRUE, ty |-> ty]
SErr(e) == [ok |-> FALSE, err |-> e]

\* ------------------------------------------------------------------------
\* stlc: Context { parent, ty }
\* ------------------------------------------------------------------------
None == [k |-> "None"]
Some(v) == [k |-> "Some", v |-> v]

\* Context::default()
Context_default == [parent |-> None, ty |-> None]

\* Context::add
Context_add(self, ty) ==
    IF self.ty = None THEN [parent |-> self.parent, ty |-> Some(ty)]
    ELSE [parent |-> Some(self), ty |-> Some(ty)]

\* Context::get
RECURSIVE Context_get(_, _)
Context_get(self, idx) ==
    IF idx = 0 THEN self.ty
    ELSE IF self.parent # None THEN Context_get(self.parent.v, idx - 1)
    ELSE None

\* ------------------------------------------------------------------------
\* stlc: Context::type_of
\* ------------------------------------------------------------------------
RECURSIVE type_of(_, _)
RECURSIVE type_of_fields(_, _, _, _)

\* Record: the fields in order, stopping at the first error
type_of_fields(self, fields, n, tys) ==
    IF n > Len(fields) THEN SOk(SType_Record(tys))
    ELSE LET r == type_of(self, fields[n])
         IN  IF ~r.ok THEN r ELSE type_of_fields(self, fields, n + 1, Append(tys, r.ty))

type_of_projection(self, term) ==
    LET rty == type_of(self, term.r)
    IN  IF ~rty.ok THEN rty
        ELSE IF rty.ty.k = "Record"
             THEN IF term.idx < Len(rty.ty.ts) THEN SOk(rty.ty.ts[term.idx + 1])
                  ELSE SErr("InvalidProjection")
             ELSE SErr("NotRecordType")

\* IsZero: `if let Ok(Type::Nat) = ... else Err(ParameterMismatch)`
type_of_iszero(self, term) ==
    IF type_of(self, term.t) = SOk(SType_Nat) THEN SOk(SType_Bool)
    ELSE SErr("ParameterMismatch")

\* Succ | Pred
type_of_succ(self, term) ==
    IF type_of(self, term.t) = SOk(SType_Nat) THEN SOk(SType_Nat)
    ELSE SErr("ParameterMismatch")

\* If that answers with the type of the first branch without comparing
type_of_if_first_arm(self, term) ==
    IF type_of(self, term.g) = SOk(SType_Bool)
    THEN LET ty1 == type_of(self, term.c)
         IN  IF ~ty1.ok THEN ty1
             ELSE LET ty2 == type_of(self, term.a)
                  IN  IF ~ty2.ok THEN ty2 ELSE SOk(ty1.ty)
    ELSE SErr("Guard")

type_of_if(self, term) ==
    IF type_of(self, term.g) = SOk(SType_Bool)
    THEN LET ty1 == type_of(self, term.c)
         IN  IF ~ty1.ok THEN ty1
             ELSE LET ty2 == type_of(self, term.a)
                  IN  IF ~ty2.ok THEN ty2
                      ELSE IF ty1.ty = ty2.ty THEN SOk(ty2.ty)
                      ELSE SErr("ArmMismatch")
    ELSE SErr("Guard")

type_of_let(self, term) ==
    LET ty == type_of(self, term.b)
    IN  IF ~ty.ok THEN ty ELSE type_of(Context_add(self, ty.ty), term.t)

type_of_var(self, term) ==
    LET g == Context_get(self, term.i)
    IN  IF g # None THEN SOk(g.v) ELSE SErr("UnknownVariable")

type_of_abs(self, term) ==
    LET ty_body == type_of(Context_add(self, term.ty), term.t)
    IN  IF ~ty_body.ok THEN ty_body ELSE SOk(SType_Arrow(term.ty, ty_body.ty))

type_of_app(self, term) ==
    LET ty1 == type_of(self, term.t1)
    IN  IF ~ty1.ok THEN ty1
        ELSE LET ty2 == type_of(self, term.t2)
             IN  IF ~ty2.ok THEN ty2
                 ELSE IF ty1.ty.k = "Arrow"
                      THEN IF ty1.ty.a = ty2.ty THEN SOk(ty1.ty.b)
                           ELSE SErr("ParameterMismatch")
                      ELSE SErr("ExpectedArrow")

type_of(self, term) ==
    CASE term.k \in {"True", "False"} -> SOk(SType_Bool)
      [] term.k = "Zero" -> SOk(SType_Nat)
      [] term.k = "Record" -> type_of_fields(self, term.fields, 1, <<>>)
      [] term.k = "Projection" -> type_of_projection(self, term)
      [] term.k = "IsZero" -> type_of_iszero(self, term)
      [] term.k \in {"Succ", "Pred"} -> type_of_succ(self, term)
      [] term.k = "If" -> type_of_if(self, term)
      [] term.k = "Let" -> type_of_let(self, term)
      [] term.k = "Var" -> type_of_var(self, term)
      [] term.k = "Abs" -> type_of_abs(self, term)
      [] term.k = "App" -> type_of_app(self, term)

\* ------------------------------------------------------------------------
\* Inputs: the types and terms the checkers are run on
\* ------------------------------------------------------------------------
\* A variant type with three alternatives, a recursive type that mentions its
\* own variable, one that does not
VT == Type_Variant(<<Variant("A", Type_Nat), Variant("B", Type_Bool), Variant("C", Type_Unit)>>)
RT == Type_Rec(Type_Arrow(Type_Nat, Type_Var(0)))
RN == Type_Rec(Type_Nat)

TyVars == {Type_Var(i) : i \in 0..MaxVar}

\* Types built from Nat and type variables by Arrow, Universal and Rec, by
\* number of nodes
TypesOfSize[n \in 1..(MaxTySize + 1)] ==
    IF n = 1 THEN {Type_Nat} \cup TyVars
    ELSE {Type_Universal(t) : t \in TypesOfSize[n - 1]}
         \cup {Type_Rec(t) : t \in TypesOfSize[n - 1]}
         \cup UNION {{Type_Arrow(a, b) : a \in TypesOfSize[i], b \in TypesOfSize[n - 1 - i]}
                        : i \in 1..(n - 2)}
Types == UNION {TypesOfSize[n] : n \in 1..MaxTySize}

\* system_f terms, by number of nodes, over one annotation per rule
Leaves ==
    {Kind_Lit("Unit"), Kind_Lit("Bool"), Kind_Lit("Nat"), Kind_Primitive("IsZero")}
    \cup {Kind_Var(i) : i \in 0..MaxVar}
Wrap(S) ==
    {Kind_Abs(Type_Bool, t) : t \in S}
    \cup {Kind_Fix(t) : t \in S}
    \cup {Kind_Injection("A", t, VT) : t \in S}
    \cup {Kind_Projection(t, 0) : t \in S}
    \cup {Kind_TyAbs(t) : t \in S}
    \cup {Kind_TyApp(t, Type_Nat) : t \in S}
    \cup {Kind_Unfold(RT, t) : t \in S}
    \cup {Kind_Fold(RT, t) : t \in S}
Pair(S1, S2) ==
    {Kind_App(t1, t2) : t1 \in S1, t2 \in S2}
    \cup {Kind_Let(t1, t2) : t1 \in S1, t2 \in S2}
    \cup {Kind_Product(<<t1, t2>>) : t1 \in S1, t2 \in S2}
TermsOfSize[n \in 1..(MaxSize + 1)] ==
    IF n = 1 THEN Leaves
    ELSE Wrap(TermsOfSize[n - 1])
         \cup UNION {Pair(TermsOfSize[i], TermsOfSize[n - 1 - i]) : i \in 1..(n - 2)}
SmallTerms == UNION {TermsOfSize[n] : n \in 1..MaxSize}

\* Applications of every two-node term to every leaf
AppTerms == {Kind_App(f, a) : f \in TermsOfSize[2], a \in Leaves}

\* Type applications of a term of type Universal(Arrow(T, T)) or
\* Universal(Arrow(T, Unit)), for every T and every argument of Types
TyArgs == UNION {TypesOfSize[n] : n \in 1..(MaxTySize - 1)}
TyAppTerms ==
    {Kind_TyApp(Kind_TyAbs(Kind_Abs(ty, Kind_Var(0))), a) : ty \in Types, a \in TyArgs}
    \cup {Kind_TyApp(Kind_Abs(ty, Kind_Var(0)), a) : ty \in TyVars, a \in TyVars}

\* Injections: declared and undeclared labels, variant and non-variant types
InjTerms ==
    {Kind_Injection(l, t, ty) :
        l \in {"A", "B", "D"}, t \in Leaves \cup TermsOfSize[2], ty \in {VT, Type_Nat}}

\* Folds and unfolds at recursive and non-recursive types
RecAnn == {RT, RN, Type_Rec(Type_Var(0)), Type_Nat}
FoldTerms ==
    {Kind_Fold(r, t) : r \in RecAnn,
        t \in Leaves \cup {Kind_Abs(Type_Nat, Kind_Fold(RT, Kind_Lit("Unit"))),
                           Kind_Fold(Type_Rec(Type_Var(0)), Kind_Lit("Unit"))}}
    \cup {Kind_Unfold(r, t) : r \in RecAnn, t \in Leaves}
    \cup {Kind_Unfold(r, Kind_Fold(r, t)) : r \in RecAnn, t \in Leaves}

\* Case terms over a scrutinee and up to MaxArms arms with one body for all
ArmLabels == {"A", "B", "C", "D"}
RECURSIVE LabelSeqs(_)
LabelSeqs(n) ==
    IF n = 0 THEN {<<>>}
    ELSE LabelSeqs(n - 1)
         \cup {Append(ls, l) : ls \in {x \in LabelSeqs(n - 1) : Len(x) = n - 1}, l \in ArmLabels}
CaseTerms ==
    {Kind_Case(e, [n \in DOMAIN ls |-> Arm(ls[n], b)]) :
        e \in {Kind_Injection("A", Kind_Lit("Nat"), VT), Kind_Lit("Unit"), Kind_Var(0)},
        ls \in LabelSeqs(MaxArms) \ {<<>>},
        b \in {Kind_Lit("Unit"), Kind_Var(0), Kind_Var(MaxVar + 1)}}

\* Terms whose annotations mention aliases, and the alias tables
AliasNames == {"X", "Y"}
AliasDefs == {Type_Nat, Type_Alias("Y"), Type_Arrow(Type_Alias("Y"), Type_Nat)}
AliasTypes ==
    {Type_Alias("X"), Type_Alias("Y"), Type_Alias("Z"),
     Type_Arrow(Type_Alias("X"), Type_Nat),
     Type_Variant(<<Variant("A", Type_Alias("X"))>>),
     Type_Product(<<Type_Alias("X"), Type_Alias("Y")>>),
     Type_Universal(Type_Alias("X")),
     Type_Rec(Type_Alias("X"))}
AliasCore ==
    UNION {{Kind_Abs(a, Kind_Var(0)),
            Kind_TyApp(Kind_TyAbs(Kind_Lit("Unit")), a),
            Kind_Injection("A", Kind_Lit("Nat"), a),
            Kind_Fold(a, Kind_Lit("Unit")),
            Kind_Unfold(a, Kind_Lit("Unit")),
            Kind_App(Kind_Abs(a, Kind_Var(0)), Kind_Lit("Nat"))} : a \in AliasTypes}
AliasTerms ==
    AliasCore
    \cup {Kind_Let(t, Kind_Var(0)) : t \in AliasCore}
    \cup {Kind_Product(<<Kind_Lit("Unit"), t>>) : t \in AliasCore}
    \cup {Kind_TyAbs(t) : t \in AliasCore}

\* A variable under up to three binders of different types
Binders(S) ==
    {Kind_Abs(Type_Bool, t) : t \in S}
    \cup {Kind_Abs(Type_Nat, t) : t \in S}
    \cup {Kind_Let(Kind_Lit("Unit"), t) : t \in S}
    \cup {Kind_TyAbs(t) : t \in S}
BinderVars == {Kind_Var(i) : i \in 0..(MaxVar + 2)}
BinderTerms ==
    BinderVars \cup Binders(BinderVars) \cup Binders(Binders(BinderVars))
    \cup Binders(Binders(Binders(BinderVars)))

\* Projections at every index up to MaxIdx out of products and non-products
ProjTerms ==
    {Kind_Projection(t, idx) :
        t \in {Kind_Product(<<Kind_Lit("Bool"), Kind_Lit("Bool"), Kind_Lit("Nat")>>),
               Kind_Product(<<Kind_Lit("Unit"), Kind_Abs(Type_Nat, Kind_Var(0))>>),
               Kind_Product(<<>>),
               Kind_Lit("Nat"), Kind_Var(0), Kind_Abs(Type_Bool, Kind_Var(0))},
        idx \in 0..MaxIdx}

\* A term variable bound by an Abs inside a TyAbs and referenced under up to
\* MaxVar + 1 further TyAbs binders
RECURSIVE TyAbsN(_, _)
TyAbsN(k, t) == IF k = 0 THEN t ELSE Kind_TyAbs(TyAbsN(k - 1, t))
TyBinderAnn == {Type_Var(0), Type_Arrow(Type_Var(0), Type_Nat), Type_Nat}
TyBinderTerms ==
    {Kind_TyAbs(Kind_Abs(P, TyAbsN(k, Kind_Var(0)))) :
        P \in TyBinderAnn, k \in 0..(MaxVar + 1)}

Terms == SmallTerms \cup AppTerms \cup TyAppTerms \cup InjTerms \cup FoldTerms
         \cup CaseTerms \cup AliasTerms \cup BinderTerms \cup ProjTerms
         \cup TyBinderTerms

\* stlc terms, by number of nodes
SLeaves == {Term_True, Term_Zero} \cup {Term_Var(i) : i \in 0..MaxVar}
SWrap(S) ==
    {Term_Succ(t) : t \in S}
    \cup {Term_Pred(t) : t \in S}
    \cup {Term_IsZero(t) : t \in S}
    \cup {Term_Abs(SType_Bool, t) : t \in S}
    \cup {Term_Projection(t, 0) : t \in S}
    \cup {Term_Record(<<t>>) : t \in S}
SPair(S1, S2) ==
    {Term_App(t1, t2) : t1 \in S1, t2 \in S2}
    \cup {Term_Let(t1, t2) : t1 \in S1, t2 \in S2}
STermsOfSize[n \in 1..(MaxSize + 1)] ==
    IF n = 1 THEN SLeaves
    ELSE SWrap(STermsOfSize[n - 1])
         \cup UNION {SPair(STermsOfSize[i], STermsOfSize[n - 1 - i]) : i \in 1..(n - 2)}
SSmallTerms == UNION {STermsOfSize[n] : n \in 1..MaxSize}
SAppTerms == {Term_App(f, a) : f \in STermsOfSize[2], a \in SLeaves \cup {Term_False}}
SIfTerms ==
    {Term_If(g, c, a) : g \in SLeaves \cup STermsOfSize[2]
                             \cup {Term_False,
                                   Term_App(Term_Abs(SType_Bool, Term_Var(0)), Term_False)},
                        c \in SLeaves \cup {Term_Abs(SType_Bool, Term_Var(0))},
                        a \in SLeaves \cup {Term_False}}
SBinders(S) ==
    {Term_Abs(SType_Bool, t) : t \in S}
    \cup {Term_Abs(SType_Nat, t) : t \in S}
    \cup {Term_Let(Term_Record(<<Term_Zero>>), t) : t \in S}
SBinderVars == {Term_Var(i) : i \in 0..(MaxVar + 2)}
SBinderTerms ==
    SBinderVars \cup SBinders(SBinderVars) \cup SBinders(SBinders(SBinderVars))
    \cup SBinders(SBinders(SBinders(SBinderVars)))
SProjTerms ==
    {Term_Projection(t, idx) :
        t \in {Term_Record(<<Term_True, Term_True, Term_Zero>>),
               Term_Record(<<Term_Zero, Term_Abs(SType_Nat, Term_Var(0))>>),
               Term_Record(<<>>),
               Term_Zero, Term_Var(0), Term_Abs(SType_Bool, Term_Var(0))},
        idx \in 0..MaxIdx}
STerms == SSmallTerms \cup SAppTerms \cup SIfTerms \cup SBinderTerms \cup SProjTerms

\* ------------------------------------------------------------------------
\* system_fw: syntax::visit::types::TypeVisitor
\* ------------------------------------------------------------------------
\* ast::TypeKind; a Variant carries an optional type, a Row a type
TypeKind_Int == [k |-> "Int"]
TypeKind_Bool == [k |-> "Bool"]
TypeKind_Unit == [k |-> "Unit"]
TypeKind_Infer == [k |-> "Infer"]
TypeKind_Defined(s) == [k |-> "Defined", s |-> s]
TypeKind_Variable(s) == [k |-> "Variable", s |-> s]
TypeKind_Function(ty1, ty2) == [k |-> "Function", ty1 |-> ty1, ty2 |-> ty2]
TypeKind_Sum(var) == [k |-> "Sum", var |-> var]
TypeKind_Product(tys) == [k |-> "Product", tys |-> tys]
TypeKind_Record(rows) == [k |-> "Record", rows |-> rows]
TypeKind_Existential(s, kind, ty) == [k |-> "Existential", s |-> s, kind |-> kind, ty |-> ty]
TypeKind_Universal(s, kind, ty) == [k |-> "Universal", s |-> s, kind |-> kind, ty |-> ty]
TypeKind_Abstraction(s, kind, ty) == [k |-> "Abstraction", s |-> s, kind |-> kind, ty |-> ty]
TypeKind_Application(ty1, ty2) == [k |-> "Application", ty1 |-> ty1, ty2 |-> ty2]
TypeKind_Recursive(ty) == [k |-> "Recursive", ty |-> ty]
FwVariant(label, ty) == [label |-> label, ty |-> ty]
Row(label, ty) == [label |-> label, ty |-> ty]
Star == [k |-> "Star"]

\* A reference &'t Type into the type being walked is the address of the
\* node: the child numbers on the way from the root
Child(ty, n) ==
    CASE ty.k \in {"Function", "Application"} -> IF n = 1 THEN ty.ty1 ELSE ty.ty2
      [] ty.k = "Sum" -> ty.var[n].ty.v
      [] ty.k = "Product" -> ty.tys[n]
      [] ty.k = "Record" -> ty.rows[n].ty
      [] ty.k \in {"Existential", "Universal", "Abstraction", "Recursive"} -> ty.ty
RECURSIVE NodeAt(_, _)
NodeAt(ty, at) == IF at = <<>> THEN ty ELSE NodeAt(Child(ty, Head(at)), Tail(at))

\* A call of a method of the visitor on the node at an address
Call(f, at) == [f |-> f, at |-> at]

\* The default hooks: the calls each makes, in order
visit_defined(at) == <<>>
visit_variable(at) == <<>>
visit_function(at) == <<Call("visit_ty", Append(at, 1)), Call("visit_ty", Append(at, 2))>>
visit_application(at) == <<Call("visit_ty", Append(at, 1)), Call("visit_ty", Append(at, 2))>>
\* visit_sum that passes over every payload after the first
visit_sum_first(var, at) ==
    LET present == SelectSeq([n \in 1..Len(var) |-> n], LAMBDA n : var[n].ty # None)
    IN  IF present = <<>> THEN <<>> ELSE <<Call("visit_ty", Append(at, present[1]))>>
visit_sum(var, at) ==
    LET present == SelectSeq([n \in 1..Len(var) |-> n], LAMBDA n : var[n].ty # None)
    IN  [m \in DOMAIN present |-> Call("visit_ty", Append(at, present[m]))]
visit_product(var, at) == [n \in DOMAIN var |-> Call("visit_ty", Append(at, n))]
visit_record(var, at) == [n \in DOMAIN var |-> Call("visit_ty", Append(at, n))]
visit_existential(at) == <<Call("visit_ty", Append(at, 1))>>
visit_universal(at) == <<Call("visit_ty", Append(at, 1))>>
visit_abstraction(at) == <<Call("visit_ty", Append(at, 1))>>
visit_recursive(at) == <<Call("visit_ty", Append(at, 1))>>
visit_ty(at) == <<Call("walk_ty", at)>>

\* walk_ty: the match on ty.kind
walk_ty(ty, at) ==
    CASE ty.k \in {"Int", "Bool", "Unit", "Infer"} -> <<>>
      [] ty.k = "Defined" -> <<Call("visit_defined", at)>>
      [] ty.k = "Variable" -> <<Call("visit_variable", at)>>
      [] ty.k = "Function" -> <<Call("visit_function", at)>>
      [] ty.k = "Sum" -> <<Call("visit_sum", at)>>
      [] ty.k = "Product" -> <<Call("visit_product", at)>>
      [] ty.k = "Record" -> <<Call("visit_record", at)>>
      [] ty.k = "Existential" -> <<Call("visit_existential", at)>>
      [] ty.k = "Universal" -> <<Call("visit_universal", at)>>
      [] ty.k = "Abstraction" -> <<Call("visit_abstraction", at)>>
      [] ty.k = "Application" -> <<Call("visit_application", at)>>
      [] ty.k = "Recursive" -> <<Call("visit_recursive", at)>>

\* The hooks an implementor can override, by the variant they belong to
HookOf ==
    [Defined |-> "visit_defined", Variable |-> "visit_variable",
     Function |-> "visit_function", Sum |-> "visit_sum", Product |-> "visit_product",
     Record |-> "visit_record", Existential |-> "visit_existential",
     Universal |-> "visit_universal", Abstraction |-> "visit_abstraction",
     Application |-> "visit_application", Recursive |-> "visit_recursive"]

\* Types by number of nodes
FwAtoms == {TypeKind_Int, TypeKind_Defined("T"), TypeKind_Variable("X")}
FwLeaves ==
    FwAtoms \cup {TypeKind_Bool, TypeKind_Unit, TypeKind_Infer,
                  TypeKind_Sum(<<FwVariant("A", None)>>), TypeKind_Product(<<>>),
                  TypeKind_Record(<<>>)}
FwWrap(S) ==
    {TypeKind_Existential("X", Star, t) : t \in S}
    \cup {TypeKind_Universal("X", Star, t) : t \in S}
    \cup {TypeKind_Abstraction("X", Star, t) : t \in S}
    \cup {TypeKind_Recursive(t) : t \in S}
    \cup {TypeKind_Product(<<t>>) : t \in S}
    \cup {TypeKind_Record(<<Row("a", t)>>) : t \in S}
    \cup {TypeKind_Sum(<<FwVariant("A", None), FwVariant("B", Some(t))>>) : t \in S}
FwPair(S1, S2) ==
    {TypeKind_Function(t1, t2) : t1 \in S1, t2 \in S2}
    \cup {TypeKind_Application(t1, t2) : t1 \in S1, t2 \in S2}
    \cup {TypeKind_Product(<<t1, t2>>) : t1 \in S1, t2 \in S2}
    \cup {TypeKind_Record(<<Row("a", t1), Row("b", t2)>>) : t1 \in S1, t2 \in S2}
    \cup {TypeKind_Sum(<<FwVariant("A", Some(t1)), FwVariant("B", None),
                         FwVariant("C", Some(t2))>>) : t1 \in S1, t2 \in S2}
FwTypesOfSize[n \in 1..(MaxFwSize + 1)] ==
    IF n = 1 THEN FwAtoms
    ELSE FwWrap(FwTypesOfSize[n - 1])
         \cup UNION {FwPair(FwTypesOfSize[i], FwTypesOfSize[n - 1 - i]) : i \in 1..(n - 2)}
FwTypes == FwLeaves \cup UNION {FwTypesOfSize[n] : n \in 1..MaxFwSize}

\* The variants that occur in a type
RECURSIVE KindsIn(_)
KindsIn(ty) ==
    {ty.k} \cup
    CASE ty.k \in {"Function", "Application"} -> KindsIn(ty.ty1) \cup KindsIn(ty.ty2)
      [] ty.k = "Sum" ->
            UNION {KindsIn(ty.var[n].ty.v) : n \in {m \in DOMAIN ty.var : ty.var[m].ty # None}}
      [] ty.k = "Product" -> UNION {KindsIn(ty.tys[n]) : n \in DOMAIN ty.tys}
      [] ty.k = "Record" -> UNION {KindsIn(ty.rows[n].ty) : n \in DOMAIN ty.rows}
      [] ty.k \in {"Existential", "Universal", "Abstraction", "Recursive"} -> KindsIn(ty.ty)
      [] OTHER -> {}

\* ------------------------------------------------------------------------
\* State
\* ------------------------------------------------------------------------
VARIABLES
    prog,       \* the crate whose run this is: "system_f", "stlc", "visit", "system_fw"
    pc,         \* where the run is: "idle", "parsed", "dealiased", "checked", ...
    stack,      \* system_f Context.stack
    map,        \* system_f Context.map
    term,       \* the term handed to the checker
    entry,      \* Context.stack as type_check found it on its last call
    result,     \* what the last type_check / type_of returned
    sh,         \* a run of Shift: the type, the two amounts and the output
    tv          \* a run of a TypeVisitor: the type, the overridden hook, the
                \* calls still to be made and the calls made

vars == <<prog, pc, stack, map, term, entry, result, sh, tv>>

NoTerm == [k |-> "NoTerm"]
NoResult == [k |-> "NoResult"]
NoShift == [k |-> "NoShift"]
NoWalk == [k |-> "NoWalk"]
EmptyMap == [n \in {} |-> Type_Nat]

Shifts == (0 - MaxShift)..MaxShift

\* What an implementor of TypeVisitor overrides: nothing, visit_ty, or the
\* hook of one variant
Overrides == {"none", "visit_ty"} \cup {HookOf[k] : k \in DOMAIN HookOf}

\* Context::default() of either checker, or a type and two shift amounts
Init ==
    /\ stack = <<>>
    /\ map = EmptyMap
    /\ term = NoTerm
    /\ entry = <<>>
    /\ result = NoResult
    /\ \/ /\ prog \in {"system_f", "stlc"}
          /\ pc = "idle"
          /\ sh = NoShift
          /\ tv = NoWalk
       \/ /\ prog = "visit"
          /\ pc = "shift0"
          /\ \E ty \in Types, d1 \in Shifts, d2 \in Shifts :
                sh = [ty |-> ty, d1 |-> d1, d2 |-> d2, out |-> ty]
          /\ tv = NoWalk
       \/ /\ prog = "system_fw"
          /\ pc = "walk"
          /\ sh = NoShift
          /\ \E ty \in FwTypes, over \in Overrides, via \in {"visit_ty", "walk_ty"} :
                /\ over \in {"none", "visit_ty"} \cup
                            {HookOf[k] : k \in KindsIn(ty) \cap DOMAIN HookOf}
                /\ over \in {"none", "visit_ty", "visit_defined", "visit_variable"}
                        => via = "visit_ty"
                /\ tv = [ty |-> ty, over |-> over, via |-> via,
                         agenda |-> <<Call("walk_ty", <<>>)>>, log |-> <<>>]

\* ------------------------------------------------------------------------
\* system_f: operations on a Context
\* ------------------------------------------------------------------------
\* The alias names a type mentions
RECURSIVE AliasesIn(_)
AliasesIn(ty) ==
    CASE ty.k = "Alias" -> {ty.s}
      [] ty.k = "Variant" -> UNION {AliasesIn(ty.fs[n].ty) : n \in DOMAIN ty.fs}
      [] ty.k = "Product" -> UNION {AliasesIn(ty.ts[n]) : n \in DOMAIN ty.ts}
      [] ty.k = "Arrow" -> AliasesIn(ty.a) \cup AliasesIn(ty.b)
      [] ty.k \in {"Universal", "Rec"} -> AliasesIn(ty.t)
      [] OTHER -> {}

\* Context::alias, before any term is checked; no alias is defined by itself
Alias ==
    /\ prog = "system_f"
    /\ pc = "idle"
    /\ stack = <<>>
    /\ \E name \in AliasNames, ty \in AliasDefs :
        /\ name \notin AliasesIn(ty)
        /\ map' = alias_insert(map, name, ty)
    /\ UNCHANGED <<prog, pc, stack, term, entry, result, sh, tv>>

\* The parser hands over a term.  With a non-empty alias table only terms
\* that mention aliases are drawn: on the others de_alias changes nothing.
ParseSet == IF DOMAIN map = {} THEN Terms ELSE AliasTerms

Parse ==
    /\ prog = "system_f"
    /\ pc = "idle"
    /\ Len(stack) <= MaxStack
    /\ \E t \in ParseSet : term' = t
    /\ pc' = "parsed"
    /\ UNCHANGED <<prog, stack, map, entry, result, sh, tv>>

\* Context::de_alias(&mut term)
DeAlias ==
    /\ prog = "system_f"
    /\ pc = "parsed"
    /\ term' = de_alias(map, term)
    /\ pc' = "dealiased"
    /\ UNCHANGED <<prog, stack, map, entry, result, sh, tv>>

\* Context::type_check(&term)
TypeCheck ==
    /\ prog = "system_f"
    /\ pc \in {"parsed", "dealiased"}
    /\ LET c == type_check(stack, term, RootSpan)
       IN  /\ result' = c.r
           /\ stack' = c.st
    /\ entry' = stack
    /\ pc' = "checked"
    /\ UNCHANGED <<prog, map, term, sh, tv>>

\* The caller drops the term and the result; the Context lives on
Return ==
    /\ prog = "system_f"
    /\ pc = "checked"
    /\ pc' = "idle"
    /\ term' = NoTerm
    /\ result' = NoResult
    /\ UNCHANGED <<prog, stack, map, entry, sh, tv>>

\* ------------------------------------------------------------------------
\* stlc: operations on the root Context
\* ------------------------------------------------------------------------
SParse ==
    /\ prog = "stlc"
    /\ pc = "idle"
    /\ \E t \in STerms : term' = t
    /\ pc' = "parsed"
    /\ UNCHANGED <<prog, stack, map, entry, result, sh, tv>>

\* root.type_of(&term)
TypeOf ==
    /\ prog = "stlc"
    /\ pc = "parsed"
    /\ result' = type_of(Context_default, term)
    /\ pc' = "checked"
    /\ UNCHANGED <<prog, stack, map, term, entry, sh, tv>>

SReturn ==
    /\ prog = "stlc"
    /\ pc = "checked"
    /\ pc' = "idle"
    /\ term' = NoTerm
    /\ result' = NoResult
    /\ UNCHANGED <<prog, stack, map, entry, sh, tv>>

\* ------------------------------------------------------------------------
\* visit: Shift::new(d2).visit(ty) followed by Shift::new(d1).visit(ty)
\* ------------------------------------------------------------------------
ShiftFirst ==
    /\ prog = "visit"
    /\ pc = "shift0"
    /\ sh' = [sh EXCEPT !.out = Shift(0, sh.d2, sh.out)]
    /\ pc' = "shift1"
    /\ UNCHANGED <<prog, stack, map, term, entry, result, tv>>

ShiftSecond ==
    /\ prog = "visit"
    /\ pc = "shift1"
    /\ sh' = [sh EXCEPT !.out = Shift(0, sh.d1, sh.out)]
    /\ pc' = "shift2"
    /\ UNCHANGED <<prog, stack, map, term, entry, result, tv>>

\* ------------------------------------------------------------------------
\* system_fw: walk_ty(&ty) on a TypeVisitor.  The calls still to be made are
\* kept in the order Rust makes them: a method's calls come before those its
\* caller has left.
\* ------------------------------------------------------------------------
At == Head(tv.agenda).at

\* The default method f is the next to run
Runs(f) ==
    /\ prog = "system_fw"
    /\ tv.agenda # <<>>
    /\ Head(tv.agenda).f = f
    /\ tv.over # f

\* The running method makes `calls` and returns
Makes(calls) ==
    /\ tv' = [tv EXCEPT !.agenda = calls \o Tail(tv.agenda),
                        !.log = Append(tv.log, Head(tv.agenda))]
    /\ pc' = IF calls \o Tail(tv.agenda) = <<>> THEN "walked" ELSE "walk"
    /\ UNCHANGED <<prog, stack, map, term, entry, result, sh>>

WalkTy == Runs("walk_ty") /\ Makes(walk_ty(NodeAt(tv.ty, At), At))
VisitTy == Runs("visit_ty") /\ Makes(visit_ty(At))
VisitDefined == Runs("visit_defined") /\ Makes(visit_defined(At))
VisitVariable == Runs("visit_variable") /\ Makes(visit_variable(At))
VisitFunction == Runs("visit_function") /\ Makes(visit_function(At))
VisitApplication == Runs("visit_application") /\ Makes(visit_application(At))
VisitSum == Runs("visit_sum") /\ Makes(visit_sum(NodeAt(tv.ty, At).var, At))
VisitProduct == Runs("visit_product") /\ Makes(visit_product(NodeAt(tv.ty, At).tys, At))
VisitRecord == Runs("visit_record") /\ Makes(visit_record(NodeAt(tv.ty, At).rows, At))
VisitExistential == Runs("visit_existential") /\ Makes(visit_existential(At))
VisitUniversal == Runs("visit_universal") /\ Makes(visit_universal(At))
VisitAbstraction == Runs("visit_abstraction") /\ Makes(visit_abstraction(At))
VisitRecursive == Runs("visit_recursive") /\ Makes(visit_recursive(At))

\* The calls the default method f makes on the node at an address
DefaultCalls(f, at) ==
    CASE f = "visit_ty" -> visit_ty(at)
      [] f = "visit_defined" -> visit_defined(at)
      [] f = "visit_variable" -> visit_variable(at)
      [] f = "visit_function" -> visit_function(at)
      [] f = "visit_application" -> visit_application(at)
      [] f = "visit_sum" -> visit_sum(NodeAt(tv.ty, at).var, at)
      [] f = "visit_product" -> visit_product(NodeAt(tv.ty, at).tys, at)
      [] f = "visit_record" -> visit_record(NodeAt(tv.ty, at).rows, at)
      [] f = "visit_existential" -> visit_existential(at)
      [] f = "visit_universal" -> visit_universal(at)
      [] f = "visit_abstraction" -> visit_abstraction(at)
      [] f = "visit_recursive" -> visit_recursive(at)

\* The implementor's own method runs: it does its work and delegates, handing
\* each type the default would visit to visit_ty or straight to walk_ty
Overridden ==
    /\ prog = "system_fw"
    /\ tv.agenda # <<>>
    /\ Head(tv.agenda).f = tv.over
    /\ LET calls == DefaultCalls(tv.over, At)
       IN  Makes([n \in DOMAIN calls |->
                    IF calls[n].f = "visit_ty" THEN Call(tv.via, calls[n].at) ELSE calls[n]])

Next ==
    \/ Alias
    \/ Parse
    \/ DeAlias
    \/ TypeCheck
    \/ Return
    \/ SParse
    \/ TypeOf
    \/ SReturn
    \/ ShiftFirst
    \/ ShiftSecond
    \/ WalkTy
    \/ VisitTy
    \/ VisitDefined
    \/ VisitVariable
    \/ VisitFunction
    \/ VisitApplication
    \/ VisitSum
    \/ VisitProduct
    \/ VisitRecord
    \/ VisitExistential
    \/ VisitUniversal
    \/ VisitAbstraction
    \/ VisitRecursive
    \/ Overridden

Spec == Init /\ [][Next]_vars

\* ------------------------------------------------------------------------
\* Properties
\* ------------------------------------------------------------------------
Checked(p) == prog = p /\ pc = "checked"

\* C1: every call of type_check leaves the context stack exactly as it found
\* it (same depth, same entries), whether it returns Ok or Err.
C1_StackRestored == Checked("system_f") => stack = entry

\* C2: Fold(R, t) with R = Rec(inner) checks to Ok(R) exactly when t checks to
\* the one-step unrolling of R, and is rejected otherwise.
C2_FoldChecksUnrolling ==
    (Checked("system_f") /\ term.k = "Fold" /\ term.ty.k = "Rec") =>
        LET sub == type_check(entry, term.t, ChildSpan(RootSpan, 1)).r
            unrolled == sub = Ok(subst(term.ty, term.ty.t))
        IN  /\ unrolled => result = Ok(term.ty)
            /\ ~unrolled => ~result.ok

\* The error of the first direct subterm, in evaluation order, that fails to
\* check (NoResult when none fails): system_f
Failure(r) == IF r.ok THEN NoResult ELSE r
FirstOf(rs) ==
    LET bad == {n \in DOMAIN rs : rs[n] # NoResult}
    IN  IF bad = {} THEN NoResult ELSE rs[CHOOSE n \in bad : \A m \in bad : n <= m]
FirstSubError(st, t) ==
    CASE t.k \in {"Fix", "Projection", "TyAbs", "TyApp", "Injection", "Fold", "Unfold"} ->
            Failure(type_check(st, t.t, ChildSpan(RootSpan, 1)).r)
      [] t.k = "Abs" ->
            Failure(type_check(push(st, t.ty), t.t, ChildSpan(RootSpan, 1)).r)
      [] t.k = "App" ->
            FirstOf(<<Failure(type_check(st, t.t1, ChildSpan(RootSpan, 1)).r),
                      Failure(type_check(st, t.t2, ChildSpan(RootSpan, 2)).r)>>)
      [] t.k = "Let" ->
            LET r1 == type_check(st, t.t1, ChildSpan(RootSpan, 1)).r
            IN  IF ~r1.ok THEN r1
                ELSE Failure(type_check(push(st, r1.ty), t.t2, ChildSpan(RootSpan, 2)).r)
      [] t.k = "Product" ->
            FirstOf([n \in DOMAIN t.ts |->
                Failure(type_check(st, t.ts[n], ChildSpan(RootSpan, n)).r)])
      [] t.k = "Case" ->
            LET r0 == type_check(st, t.e, ChildSpan(RootSpan, 0)).r
            IN  IF ~r0.ok THEN r0
                ELSE IF r0.ty.k # "Variant" THEN NoResult
                ELSE FirstOf([n \in DOMAIN t.arms |->
                        IF t.arms[n].label \in Labels(r0.ty.fs)
                        THEN Failure(type_check(
                                push(st, r0.ty.fs[FieldIndex(r0.ty.fs, t.arms[n].label)].ty),
                                t.arms[n].t, ChildSpan(RootSpan, n)).r)
                        ELSE NoResult])
      [] OTHER -> NoResult

\* The same for stlc, in the root context
SFirstSubError(t) ==
    CASE t.k \in {"Succ", "Pred", "IsZero"} -> Failure(type_of(Context_default, t.t))
      [] t.k = "Projection" -> Failure(type_of(Context_default, t.r))
      [] t.k = "Abs" -> Failure(type_of(Context_add(Context_default, t.ty), t.t))
      [] t.k = "App" ->
            FirstOf(<<Failure(type_of(Context_default, t.t1)),
                      Failure(type_of(Context_default, t.t2))>>)
      [] t.k = "If" ->
            FirstOf(<<Failure(type_of(Context_default, t.g)),
                      Failure(type_of(Context_default, t.c)),
                      Failure(type_of(Context_default, t.a))>>)
      [] t.k = "Let" ->
            LET r1 == type_of(Context_default, t.b)
            IN  IF ~r1.ok THEN r1
                ELSE Failure(type_of(Context_add(Context_default, r1.ty), t.t))
      [] t.k = "Record" ->
            FirstOf([n \in DOMAIN t.fields |-> Failure(type_of(Context_default, t.fields[n]))])
      [] OTHER -> NoResult

\* C3: in both checkers, when a direct subterm fails to check, the enclosing
\* term fails with the error of the first failing subterm, unchanged.
C3_FirstErrorPropagates ==
    /\ Checked("system_f") =>
        (FirstSubError(entry, term) # NoResult => result = FirstSubError(entry, term))
    /\ Checked("stlc") =>
        (SFirstSubError(term) # NoResult => result = SFirstSubError(term))

\* C4: for App(t1, t2) whose subterms both check: an Arrow(dom, cod) whose dom
\* is the type of t2 gives Ok(cod); an Arrow whose dom differs gives
\* ParameterMismatch(dom, type of t2, span of t2); anything else gives NotArrow
\* (ExpectedArrow in stlc, whose ParameterMismatch has no components).
\* App(Abs(Bool, Var(0)), false) in the empty context has type Bool.
C4_Application ==
    /\ (Checked("system_f") /\ term.k = "App") =>
        LET r1 == type_check(entry, term.t1, ChildSpan(RootSpan, 1)).r
            r2 == type_check(entry, term.t2, ChildSpan(RootSpan, 2)).r
        IN  (r1.ok /\ r2.ok) =>
                IF r1.ty.k = "Arrow"
                THEN IF r1.ty.a = r2.ty THEN result = Ok(r1.ty.b)
                     ELSE /\ ~result.ok
                          /\ result.kind =
                                ParameterMismatch(r1.ty.a, r2.ty, ChildSpan(RootSpan, 2))
                ELSE ~result.ok /\ result.kind = ErrKind("NotArrow")
    /\ (Checked("stlc") /\ term.k = "App") =>
        LET r1 == type_of(Context_default, term.t1)
            r2 == type_of(Context_default, term.t2)
        IN  (r1.ok /\ r2.ok) =>
                IF r1.ty.k = "Arrow"
                THEN IF r1.ty.a = r2.ty THEN result = SOk(r1.ty.b)
                     ELSE result = SErr("ParameterMismatch")
                ELSE result = SErr("ExpectedArrow")
    /\ (Checked("system_f") /\ entry = <<>>
            /\ term = Kind_App(Kind_Abs(Type_Bool, Kind_Var(0)), Kind_Lit("Bool"))) =>
        result = Ok(Type_Bool)
    /\ (Checked("stlc") /\ term = Term_App(Term_Abs(SType_Bool, Term_Var(0)), Term_False)) =>
        result = SOk(SType_Bool)

\* An application whose argument has the wrong type has been checked
C4_Witness ==
    /\ Checked("system_f")
    /\ term = Kind_App(Kind_Abs(Type_Bool, Kind_Var(0)), Kind_Lit("Nat"))
    /\ result = Err(ChildSpan(RootSpan, 1),
                    ParameterMismatch(Type_Bool, Type_Nat, ChildSpan(RootSpan, 2)))

\* C5: Injection(label, payload, declared): NotVariant when declared is no
\* Variant or has no field named label; Ok(declared) when the payload has the
\* field's type; otherwise ParameterMismatch whose first component is the
\* declared field type and whose second is the payload's type.
C5_Injection ==
    (Checked("system_f") /\ term.k = "Injection") =>
        IF term.ty.k # "Variant" THEN ~result.ok /\ result.kind = ErrKind("NotVariant")
        ELSE IF term.label \notin Labels(term.ty.fs)
        THEN ~result.ok /\ result.kind = ErrKind("NotVariant")
        ELSE LET fty == term.ty.fs[FieldIndex(term.ty.fs, term.label)].ty
                 p == type_check(entry, term.t, ChildSpan(RootSpan, 1)).r
             IN  p.ok =>
                    IF p.ty = fty THEN result = Ok(term.ty)
                    ELSE /\ ~result.ok
                         /\ result.kind.e = "ParameterMismatch"
                         /\ result.kind.a = fty
                         /\ result.kind.b = p.ty

\* The type a with its free variables (those at or above c) raised by k
RECURSIVE Raise(_, _, _)
Raise(c, k, a) ==
    CASE a.k = "Var" -> IF a.i >= c THEN Type_Var(a.i + k) ELSE a
      [] a.k = "Arrow" -> Type_Arrow(Raise(c, k, a.a), Raise(c, k, a.b))
      [] a.k = "Universal" -> Type_Universal(Raise(c + 1, k, a.t))
      [] a.k = "Rec" -> Type_Rec(Raise(c + 1, k, a.t))
      [] a.k = "Product" -> Type_Product([n \in DOMAIN a.ts |-> Raise(c, k, a.ts[n])])
      [] a.k = "Variant" ->
            Type_Variant([n \in DOMAIN a.fs |->
                Variant(a.fs[n].label, Raise(c, k, a.fs[n].ty))])
      [] OTHER -> a

\* The body t of a Universal with its bound variable (index k under k
\* binders) replaced by a raised by k; the variables above it, which denote
\* binders outside the Universal, lose the one binder that is removed
RECURSIVE Instance(_, _, _)
Instance(k, a, t) ==
    CASE t.k = "Var" ->
            IF t.i = k THEN Raise(0, k, a)
            ELSE IF t.i > k THEN Type_Var(t.i - 1) ELSE t
      [] t.k = "Arrow" -> Type_Arrow(Instance(k, a, t.a), Instance(k, a, t.b))
      [] t.k = "Universal" -> Type_Universal(Instance(k + 1, a, t.t))
      [] t.k = "Rec" -> Type_Rec(Instance(k + 1, a, t.t))
      [] t.k = "Product" -> Type_Product([n \in DOMAIN t.ts |-> Instance(k, a, t.ts[n])])
      [] t.k = "Variant" ->
            Type_Variant([n \in DOMAIN t.fs |->
                Variant(t.fs[n].label, Instance(k, a, t.fs[n].ty))])
      [] OTHER -> t

C7_ShiftComposes ==
    (prog = "visit" /\ pc = "shift2") => sh.out = Shift(0, sh.d1 + sh.d2, sh.ty)

\* A shift by d takes no free variable of t (one at or above its cutoff c)
\* below its cutoff
RECURSIVE KeepsFree(_, _, _)
KeepsFree(c, d, t) ==
    CASE t.k = "Var" -> t.i >= c => t.i + d >= c
      [] t.k = "Arrow" -> KeepsFree(c, d, t.a) /\ KeepsFree(c, d, t.b)
      [] t.k \in {"Universal", "Rec"} -> KeepsFree(c + 1, d, t.t)
      [] t.k = "Product" -> \A n \in DOMAIN t.ts : KeepsFree(c, d, t.ts[n])
      [] t.k = "Variant" -> \A n \in DOMAIN t.fs : KeepsFree(c, d, t.fs[n].ty)
      [] OTHER -> TRUE

\* C7 as amended: shift(d1, shift(d2, T)) = shift(d1 + d2, T), where shift(d)
\* adds d to every index at or above a cutoff that starts at 0 and grows by 1
\* under each binder, for every d1 and every d2 that takes no free variable of
\* T below its cutoff (every d2 >= 0).
C7_ShiftComposesWhenFreeStaysFree ==
    (prog = "visit" /\ pc = "shift2" /\ KeepsFree(0, sh.d2, sh.ty)) =>
        /\ sh.out = Shift(0, sh.d1 + sh.d2, sh.ty)
        /\ sh.out = Raise(0, sh.d1 + sh.d2, sh.ty)

\* The +1 and -1 steps of instantiation on a type with a free variable under
\* a binder
C7_Witness ==
    /\ prog = "visit"
    /\ pc = "shift2"
    /\ sh.ty = Type_Universal(Type_Var(1))
    /\ sh.d2 = 1
    /\ sh.d1 = -1
    /\ sh.out = sh.ty

\* A variable under Abs and Let binders only (the bound term of a Let a
\* literal), and what positional lookup gives for it in the context ctx (the
\* types of the binders, innermost first)
RECURSIVE IsBinderChain(_)
IsBinderChain(t) ==
    CASE t.k = "Var" -> TRUE
      [] t.k = "Abs" -> IsBinderChain(t.t)
      [] t.k = "Let" -> t.t1.k = "Lit" /\ IsBinderChain(t.t2)
      [] OTHER -> FALSE
RECURSIVE Lookup(_, _)
Lookup(ctx, t) ==
    CASE t.k = "Var" ->
            IF t.i < Len(ctx) THEN [ok |-> TRUE, ty |-> ctx[t.i + 1]]
            ELSE [ok |-> FALSE, i |-> t.i]
      [] t.k = "Abs" ->
            LET r == Lookup(<<t.ty>> \o ctx, t.t)
            IN  IF r.ok THEN [ok |-> TRUE, ty |-> Type_Arrow(t.ty, r.ty)] ELSE r
      [] t.k = "Let" -> Lookup(<<LitType(t.t1.lit)>> \o ctx, t.t2)

\* The same for stlc (the bound term of a Let is the record {0})
RECURSIVE SIsBinderChain(_)
SIsBinderChain(t) ==
    CASE t.k = "Var" -> TRUE
      [] t.k = "Abs" -> SIsBinderChain(t.t)
      [] t.k = "Let" -> t.b = Term_Record(<<Term_Zero>>) /\ SIsBinderChain(t.t)
      [] OTHER -> FALSE
RECURSIVE SLookup(_, _)
SLookup(ctx, t) ==
    CASE t.k = "Var" ->
            IF t.i < Len(ctx) THEN SOk(ctx[t.i + 1]) ELSE SErr("UnknownVariable")
      [] t.k = "Abs" ->
            LET r == SLookup(<<t.ty>> \o ctx, t.t)
            IN  IF r.ok THEN SOk(SType_Arrow(t.ty, r.ty)) ELSE r
      [] t.k = "Let" -> SLookup(<<SType_Record(<<SType_Nat>>)>> \o ctx, t.t)

\* C8: Var(idx) under n term-level binders opened since the empty context has
\* the type introduced by the idx-th innermost binder when idx < n and is an
\* unbound-variable error when idx >= n; Var(0) in the empty context is
\* unbound and Abs(Bool, Var(0)) has type Arrow(Bool, Bool).
C8_VariableLookup ==
    /\ (Checked("system_f") /\ entry = <<>> /\ IsBinderChain(term)) =>
        LET r == Lookup(<<>>, term)
        IN  IF r.ok THEN result = Ok(r.ty)
            ELSE ~result.ok /\ result.kind = UnboundVariable(r.i)
    /\ (Checked("stlc") /\ SIsBinderChain(term)) => result = SLookup(<<>>, term)
    /\ (Checked("system_f") /\ entry = <<>> /\ term = Kind_Var(0)) =>
        (~result.ok /\ result.kind = UnboundVariable(0))
    /\ (Checked("system_f") /\ entry = <<>> /\ term = Kind_Abs(Type_Bool, Kind_Var(0))) =>
        result = Ok(Type_Arrow(Type_Bool, Type_Bool))
    /\ (Checked("stlc") /\ term = Term_Var(0)) => result = SErr("UnknownVariable")
    /\ (Checked("stlc") /\ term = Term_Abs(SType_Bool, Term_Var(0))) =>
        result = SOk(SType_Arrow(SType_Bool, SType_Bool))

\* A variable that names the outer of two binders of different types
C8_Witness ==
    /\ Checked("system_f")
    /\ entry = <<>>
    /\ term = Kind_Abs(Type_Bool, Kind_Abs(Type_Nat, Kind_Var(1)))
    /\ result = Ok(Type_Arrow(Type_Bool, Type_Arrow(Type_Nat, Type_Bool)))

\* The aliases named anywhere in the type annotations of a term
RECURSIVE TermAliases(_)
TermAliases(t) ==
    CASE t.k \in {"Abs", "TyApp", "Injection", "Fold", "Unfold"} ->
            AliasesIn(t.ty) \cup TermAliases(t.t)
      [] t.k \in {"Fix", "Projection", "TyAbs"} -> TermAliases(t.t)
      [] t.k \in {"App", "Let"} -> TermAliases(t.t1) \cup TermAliases(t.t2)
      [] t.k = "Product" -> UNION {TermAliases(t.ts[n]) : n \in DOMAIN t.ts}
      [] t.k = "Case" ->
            TermAliases(t.e) \cup UNION {TermAliases(t.arms[n].t) : n \in DOMAIN t.arms}
      [] OTHER -> {}

\* C9: after Context::de_alias(term) no type annotation of the term contains
\* a node Alias(n) with n in the alias table, whatever the table (tables in
\* which one alias is defined by another included).
C9_AliasResolutionComplete ==
    (prog = "system_f" /\ pc = "dealiased") => TermAliases(term) \cap DOMAIN map = {}

\* The outcome of the pattern checks for the declared labels L and the arm
\* labels ls, stated on the labels alone: the kind of the failure and the
\* arm it is flagged at (0: the case term itself), or "none"
PatternVerdict(L, ls) ==
    LET undeclared == {n \in DOMAIN ls : ls[n] \notin L}
        seen(n) == {ls[m] : m \in 1..(n - 1)}
        again == {n \in DOMAIN ls : ls[n] \in seen(n)}
    IN  IF undeclared # {}
        THEN [e |-> "InvalidPattern",
              at |-> CHOOSE n \in undeclared : \A m \in undeclared : n <= m]
        ELSE IF again # {}
        THEN [e |-> "UnreachablePattern",
              at |-> CHOOSE n \in again : \A m \in again : n <= m]
        ELSE IF L # {ls[n] : n \in DOMAIN ls}
        THEN [e |-> "NotExhaustive", at |-> 0]
        ELSE [e |-> "none", at |-> 0]

\* C10: for a case term whose scrutinee has a Variant type with declared
\* labels L: InvalidPattern if an arm's label is not in L, UnreachablePattern
\* at the second arm carrying an already-seen label, NotExhaustive if some
\* label of L is left uncovered, and no pattern failure for any ordering of
\* arms that covers each label of L exactly once (with unit arm bodies the
\* case term then has type Unit).
C10_CasePatterns ==
    (Checked("system_f") /\ term.k = "Case") =>
        LET sc == type_check(entry, term.e, ChildSpan(RootSpan, 0)).r
        IN  (sc.ok /\ sc.ty.k = "Variant") =>
            LET ls == [n \in DOMAIN term.arms |-> term.arms[n].label]
                v == PatternVerdict(Labels(sc.ty.fs), ls)
            IN  IF v.e = "none"
                THEN /\ result.ok \/ result.kind.e \notin
                            {"InvalidPattern", "UnreachablePattern", "NotExhaustive"}
                     /\ (\A n \in DOMAIN term.arms : term.arms[n].t = Kind_Lit("Unit"))
                            => result = Ok(Type_Unit)
                ELSE /\ ~result.ok
                     /\ result.kind = ErrKind(v.e)
                     /\ result.span = IF v.at = 0 THEN RootSpan
                                      ELSE ChildSpan(RootSpan, v.at)

\* Three arms covering A, B, C in another order than the declaration's
C10_Witness ==
    /\ Checked("system_f")
    /\ term = Kind_Case(Kind_Injection("A", Kind_Lit("Nat"), VT),
                        <<Arm("C", Kind_Lit("Unit")), Arm("A", Kind_Lit("Unit")),
                          Arm("B", Kind_Lit("Unit"))>>)
    /\ result = Ok(Type_Unit)

\* C11: for Projection(t, idx) where t checks: a product / record of n
\* component types gives the idx-th component type when idx < n and
\* InvalidProjection when idx >= n; any other type gives NotProduct
\* (NotRecordType in stlc).  Index 2 of (Bool, Bool, Nat) is Nat, index 5 is
\* InvalidProjection.
C11_Projection ==
    /\ (Checked("system_f") /\ term.k = "Projection") =>
        LET r == type_check(entry, term.t, ChildSpan(RootSpan, 1)).r
        IN  r.ok =>
                IF r.ty.k = "Product"
                THEN IF term.idx < Len(r.ty.ts)
                     THEN result = Ok(r.ty.ts[term.idx + 1])
                     ELSE ~result.ok /\ result.kind = ErrKind("InvalidProjection")
                ELSE ~result.ok /\ result.kind = ErrKind("NotProduct")
    /\ (Checked("stlc") /\ term.k = "Projection") =>
        LET r == type_of(Context_default, term.r)
        IN  r.ok =>
                IF r.ty.k = "Record"
                THEN IF term.idx < Len(r.ty.ts)
                     THEN result = SOk(r.ty.ts[term.idx + 1])
                     ELSE result = SErr("InvalidProjection")
                ELSE result = SErr("NotRecordType")
    /\ \A idx \in {2, 5} :
        /\ (Checked("system_f") /\ term = Kind_Projection(
                Kind_Product(<<Kind_Lit("Bool"), Kind_Lit("Bool"), Kind_Lit("Nat")>>), idx)) =>
            IF idx = 2 THEN result = Ok(Type_Nat)
            ELSE ~result.ok /\ result.kind = ErrKind("InvalidProjection")
        /\ (Checked("stlc") /\ term = Term_Projection(
                Term_Record(<<Term_True, Term_True, Term_Zero>>), idx)) =>
            result = IF idx = 2 THEN SOk(SType_Nat) ELSE SErr("InvalidProjection")

\* The last component of a three-component product has been projected
C11_Witness ==
    /\ Checked("system_f")
    /\ term = Kind_Projection(
           Kind_Product(<<Kind_Lit("Bool"), Kind_Lit("Bool"), Kind_Lit("Nat")>>), 2)
    /\ result = Ok(Type_Nat)

\* C12: in stlc, for If(guard, csq, alt) whose guard has type Bool and whose
\* branches both check, type_of gives the common branch type when the branch
\* types are equal and ArmMismatch when they differ; a guard of another type
\* gives Guard.  If(App(Abs(Bool, Var(0)), false), Abs(Bool, Var(0)), false)
\* gives ArmMismatch.
C12_If ==
    /\ (Checked("stlc") /\ term.k = "If") =>
        LET g == type_of(Context_default, term.g)
            c == type_of(Context_default, term.c)
            a == type_of(Context_default, term.a)
        IN  /\ (g.ok /\ g.ty = SType_Bool /\ c.ok /\ a.ok) =>
                    result = IF c.ty = a.ty THEN SOk(c.ty) ELSE SErr("ArmMismatch")
            /\ (g.ok /\ g.ty # SType_Bool) => result = SErr("Guard")
    /\ (Checked("stlc")
            /\ term = Term_If(Term_App(Term_Abs(SType_Bool, Term_Var(0)), Term_False),
                              Term_Abs(SType_Bool, Term_Var(0)), Term_False)) =>
        result = SErr("ArmMismatch")

\* main's `mistyped` term has been checked
C12_Witness ==
    /\ Checked("stlc")
    /\ term = Term_If(Term_App(Term_Abs(SType_Bool, Term_Var(0)), Term_False),
                      Term_Abs(SType_Bool, Term_Var(0)), Term_False)
    /\ result = SErr("ArmMismatch")

\* The addresses of the nodes of a type, the root included
RECURSIVE Paths(_)
Paths(ty) ==
    LET kids ==
            CASE ty.k \in {"Function", "Application"} -> {1, 2}
              [] ty.k = "Sum" -> {n \in DOMAIN ty.var : ty.var[n].ty # None}
              [] ty.k = "Product" -> DOMAIN ty.tys
              [] ty.k = "Record" -> DOMAIN ty.rows
              [] ty.k \in {"Existential", "Universal", "Abstraction", "Recursive"} -> {1}
              [] OTHER -> {}
    IN  {<<>>} \cup UNION {{<<n>> \o p : p \in Paths(Child(ty, n))} : n \in kids}

\* How often a method has been called on the node at an address
Calls(f, at) == Cardinality({i \in DOMAIN tv.log : tv.log[i] = Call(f, at)})

\* C13: walk_ty(T) terminates (no call is made twice, so at most three calls
\* per node are made) and, no hook overridden, calls visit_ty exactly once on
\* every proper subtree of T and visit_defined / visit_variable once per
\* Defined / Variable leaf; with the hook of one variant overridden by a
\* method that delegates, every node is still walked once and the hook of
\* every node of every variant is still called once.
C13_TypeVisitor ==
    prog = "system_fw" =>
        /\ \A i, j \in DOMAIN tv.log : i # j => tv.log[i] # tv.log[j]
        /\ Len(tv.log) + Len(tv.agenda) <= 3 * Cardinality(Paths(tv.ty))
        /\ pc = "walk" <=> tv.agenda # <<>>
        /\ \A i \in DOMAIN tv.log : tv.log[i].at \in Paths(tv.ty)
        /\ pc = "walked" =>
            \A p \in Paths(tv.ty) :
                LET k == NodeAt(tv.ty, p).k
                IN  /\ Calls("walk_ty", p) = 1
                    /\ \A f \in Overrides \ {"none", "visit_ty"} :
                            Calls(f, p) = IF k \in DOMAIN HookOf /\ HookOf[k] = f THEN 1 ELSE 0
                    /\ tv.over = "none" =>
                            Calls("visit_ty", p) = IF p = <<>> THEN 0 ELSE 1

\* A walk over a sum with an absent and a present payload under a binder is
\* over, no hook overridden
C13_Witness ==
    /\ prog = "system_fw"
    /\ pc = "walked"
    /\ tv.over = "none"
    /\ tv.ty = TypeKind_Universal("X", Star,
                   TypeKind_Sum(<<FwVariant("A", None),
                                  FwVariant("B", Some(TypeKind_Variable("X")))>>))
    /\ Calls("visit_variable", <<1, 2>>) = 1

\* A walk with the hook of a composite variant overridden, its children
\* handed straight to walk_ty, is over
C13_WitnessOverridden ==
    /\ prog = "system_fw"
    /\ pc = "walked"
    /\ tv.over = "visit_function"
    /\ tv.via = "walk_ty"
    /\ Calls("walk_ty", <<2>>) = 1
    /\ Calls("visit_ty", <<2>>) = 0

\* k Universal binders around a type
RECURSIVE UniversalN(_, _)
UniversalN(k, ty) == IF k = 0 THEN ty ELSE Type_Universal(UniversalN(k - 1, ty))

\* C14: a term variable bound by Abs(P, ...) and referenced under k
\* intervening TyAbs binders gets the type P with its free type-variable
\* indices raised by k; TyAbs(Abs(Var(0), TyAbs(Var(0)))) has type
\* Universal(Arrow(Var(0), Universal(Var(1)))).
C14_TypeVariablesAcrossTyAbs ==
    (Checked("system_f") /\ entry = <<>>) =>
        \A P \in TyBinderAnn, k \in 0..(MaxVar + 1) :
            term = Kind_TyAbs(Kind_Abs(P, TyAbsN(k, Kind_Var(0)))) =>
                result = Ok(Type_Universal(Type_Arrow(P, UniversalN(k, Raise(0, k, P)))))

====
